---- MODULE Spec2Model ----
(***************************************************************************)
(* A model of ctrld's DNS proxy (cmd/ctrld/dns_proxy.go): the per-query    *)
(* handler of serveDNS, the policy matcher upstreamFor and the proxy       *)
(* engine with its cache lookup, retry, failover and stale serving; the    *)
(* string functions canonicalName and wildcardMatches applied on their     *)
(* own; and the servers serveDNS starts in its errgroup.                   *)
(*                                                                         *)
(* Strings the code takes apart (domain names, rule patterns) are tuples   *)
(* of one-character strings; identifiers the code only trims a prefix from *)
(* ("upstream.0", "network.lan") are pairs <<prefix, rest>>.  Time is      *)
(* counted in ticks, TicksPerSec of them to the second, so that a          *)
(* time.Duration's Seconds() truncated to uint32 is a real truncation.     *)
(***************************************************************************)
EXTENDS Integers, Sequences, FiniteSets, TLC

VARIABLES
    cfg,      \* p.cfg and p.cache != nil: fixed when the program starts
    world,    \* the clients on the network and the questions they ask
    cache,    \* p.cache: the set of its entries [key, value]
    now,      \* time.Now(), in ticks
    nreq,     \* queries received so far
    h,        \* the handler runs: one record of locals per slot
    call,     \* a function of the program applied on its own: arguments and results
    g         \* serveDNS's errgroup: its server tasks, its context and its error

vars == <<cfg, world, cache, now, nreq, h, call, g>>

----------------------------------------------------------------------------
(* Bounds of the model *)

MaxTime == 2
MaxRequests == 2
TicksPerSec == 2

(* Program constants *)

staleTTL == 60
osTimeout == 2000
RcodeSuccess == 0
RcodeServerFailure == 2
RcodeRefused == 5
TypePTR == 12
TypeOPT == 41
EDNS0_OPTION_MAC == 65001

Nil == [nil |-> TRUE]

\* A nil net.IP.
NoIP == "<nil>"

Slots == {"r1", "r2"}

\* No function is applied on its own; serveDNS has not built its errgroup.
NoCall == [fn |-> "none"]
NoGroup == [pc |-> "none"]

----------------------------------------------------------------------------
(* Strings *)

IsSpace(c) == c = " "

ToLowerChar(c) ==
    CASE c = "A" -> "a"
      [] c = "B" -> "b"
      [] c = "C" -> "c"
      [] c = "X" -> "x"
      [] OTHER -> c

ToLower(s) == [k \in 1..Len(s) |-> ToLowerChar(s[k])]

RECURSIVE TrimLeft(_)
TrimLeft(s) ==
    IF s # <<>> /\ IsSpace(Head(s)) THEN TrimLeft(Tail(s)) ELSE s

RECURSIVE TrimRight(_)
TrimRight(s) ==
    IF s # <<>> /\ IsSpace(s[Len(s)]) THEN TrimRight(SubSeq(s, 1, Len(s) - 1)) ELSE s

TrimSpace(s) == TrimRight(TrimLeft(s))

HasPrefix(s, p) == Len(s) >= Len(p) /\ SubSeq(s, 1, Len(p)) = p

HasSuffix(s, p) == Len(s) >= Len(p) /\ SubSeq(s, Len(s) - Len(p) + 1, Len(s)) = p

TrimSuffix(s, p) ==
    IF HasSuffix(s, p) THEN SubSeq(s, 1, Len(s) - Len(p)) ELSE s

\* strings.Split(s, sep) for a one-character separator: the pieces between
\* the separators, one more than there are separators.
RECURSIVE SplitFrom(_, _, _)
SplitFrom(s, sep, cur) ==
    IF s = <<>> THEN <<cur>>
    ELSE IF Head(s) = sep THEN <<cur>> \o SplitFrom(Tail(s), sep, <<>>)
    ELSE SplitFrom(Tail(s), sep, Append(cur, Head(s)))

Split(s, sep) == SplitFrom(s, sep, <<>>)

canonicalName(fqdn) == ToLower(TrimSuffix(TrimSpace(fqdn), <<".">>))

\* wildcardMatches taking the first two pieces when there are more stars.
wildcardMatchesManyStars(wildcard, domain) ==
    LET wildCardParts == Split(wildcard, "*")
    IN  IF Len(wildCardParts) < 2 THEN FALSE
        ELSE IF Len(wildCardParts[1]) > 0 /\ Len(wildCardParts[2]) > 0
             THEN HasPrefix(domain, wildCardParts[1]) /\ HasSuffix(domain, wildCardParts[2])
        ELSE IF Len(wildCardParts[2]) > 0 THEN HasSuffix(domain, wildCardParts[2])
        ELSE IF Len(wildCardParts[1]) > 0 THEN HasPrefix(domain, wildCardParts[1])
        ELSE FALSE

wildcardMatches(wildcard, domain) ==
    LET wildCardParts == Split(wildcard, "*")
    IN  IF Len(wildCardParts) # 2 THEN FALSE
        ELSE IF Len(wildCardParts[1]) > 0 /\ Len(wildCardParts[2]) > 0
             THEN HasPrefix(domain, wildCardParts[1]) /\ HasSuffix(domain, wildCardParts[2])
        ELSE IF Len(wildCardParts[2]) > 0 THEN HasSuffix(domain, wildCardParts[2])
        ELSE IF Len(wildCardParts[1]) > 0 THEN HasPrefix(domain, wildCardParts[1])
        ELSE FALSE

\* An identifier "<prefix><rest>".
Id(prefix, rest) == <<prefix, rest>>

TrimPrefix(s, prefix) == IF s[1] = prefix THEN s[2] ELSE s[1] \o s[2]

containRcode(rcodes, rcode) == \E k \in 1..Len(rcodes) : rcodes[k] = rcode

----------------------------------------------------------------------------
(* Policy matching *)

\* addr.(type): the IP of a *net.UDPAddr or *net.TCPAddr, no IP otherwise.
SourceIP(addr) == IF addr.net \in {"udp", "tcp"} THEN addr.ip ELSE NoIP

\* net.IPNet.Contains: a block is the set of the addresses in it; no IP is in none.
IPNetContains(ipNet, ip) == ip # NoIP /\ ip \in ipNet

\* Whether network rule `rule` applies: its network is configured and one of
\* its blocks holds the source IP.
NetworkRuleMatches(rule, sourceIP) ==
    LET networkNum == TrimPrefix(rule.source, "network.")
    IN  /\ networkNum \in DOMAIN cfg.Network
        /\ \E k \in 1..Len(cfg.Network[networkNum].IPNets) :
              IPNetContains(cfg.Network[networkNum].IPNets[k], sourceIP)

DomainRuleMatches(rule, domain) ==
    rule.source = domain \/ wildcardMatches(rule.source, domain)

\* The index of the last network rule that applies: the loop without its break.
LastNetworkRule(rules, sourceIP) ==
    IF \E k \in 1..Len(rules) : NetworkRuleMatches(rules[k], sourceIP)
    THEN CHOOSE k \in 1..Len(rules) :
            /\ NetworkRuleMatches(rules[k], sourceIP)
            /\ \A j \in (k + 1)..Len(rules) : ~NetworkRuleMatches(rules[j], sourceIP)
    ELSE 0

\* The index of the first network rule that applies, 0 when there is none
\* (the labelled loop networkRules with its break).
FirstNetworkRule(rules, sourceIP) ==
    IF \E k \in 1..Len(rules) : NetworkRuleMatches(rules[k], sourceIP)
    THEN CHOOSE k \in 1..Len(rules) :
            /\ NetworkRuleMatches(rules[k], sourceIP)
            /\ \A j \in 1..(k - 1) : ~NetworkRuleMatches(rules[j], sourceIP)
    ELSE 0

\* The index of the first domain rule that applies, 0 when there is none.
FirstDomainRule(rules, domain) ==
    IF \E k \in 1..Len(rules) : DomainRuleMatches(rules[k], domain)
    THEN CHOOSE k \in 1..Len(rules) :
            /\ DomainRuleMatches(rules[k], domain)
            /\ \A j \in 1..(k - 1) : ~DomainRuleMatches(rules[j], domain)
    ELSE 0

NoNetwork == Id("", "no network")

NoRule == <<>>

\* What upstreamFor does once a domain rule was found: the rule's targets.
DomainRuleResult(policy, di, ni) ==
    [upstreams      |-> policy.Rules[di].targets,
     matched        |-> TRUE,
     matchedNetwork |-> IF ni = 0 THEN NoNetwork ELSE policy.Networks[ni].source,
     unenforced     |-> ni # 0 /\ Len(policy.Networks[ni].targets) > 0,
     matchedRule    |-> policy.Rules[di].source]

\* What upstreamFor does when no domain rule was found.
NoDomainRuleResult(policy, ni, default) ==
    IF ni # 0
    THEN [upstreams      |-> policy.Networks[ni].targets,
          matched        |-> TRUE,
          matchedNetwork |-> policy.Networks[ni].source,
          unenforced     |-> FALSE,
          matchedRule    |-> NoRule]
    ELSE [upstreams      |-> default,
          matched        |-> FALSE,
          matchedNetwork |-> NoNetwork,
          unenforced     |-> FALSE,
          matchedRule    |-> NoRule]

\* upstreamFor returning as soon as a network rule matched.
upstreamForNetworkFirst(defaultUpstreamNum, lc, addr, domain) ==
    LET default == << Id("upstream.", defaultUpstreamNum) >>
    IN  IF lc.Policy = Nil
        THEN [upstreams |-> default, matched |-> FALSE, matchedNetwork |-> NoNetwork,
              unenforced |-> FALSE, matchedRule |-> NoRule]
        ELSE LET ni == FirstNetworkRule(lc.Policy.Networks, SourceIP(addr))
                 di == FirstDomainRule(lc.Policy.Rules, domain)
             IN  IF di # 0 /\ ni = 0
                 THEN DomainRuleResult(lc.Policy, di, ni)
                 ELSE NoDomainRuleResult(lc.Policy, ni, default)

upstreamFor(defaultUpstreamNum, lc, addr, domain) ==
    LET default == << Id("upstream.", defaultUpstreamNum) >>
    IN  IF lc.Policy = Nil
        THEN [upstreams |-> default, matched |-> FALSE, matchedNetwork |-> NoNetwork,
              unenforced |-> FALSE, matchedRule |-> NoRule]
        ELSE LET ni == FirstNetworkRule(lc.Policy.Networks, SourceIP(addr))
                 di == FirstDomainRule(lc.Policy.Rules, domain)
             IN  IF di # 0
                 THEN DomainRuleResult(lc.Policy, di, ni)
                 ELSE NoDomainRuleResult(lc.Policy, ni, default)

----------------------------------------------------------------------------
(* DNS messages *)

\* A resource record: its type, its TTL field and, for an OPT record, its options.
RR(rrtype, ttl) == [Rrtype |-> rrtype, Ttl |-> ttl, Option |-> <<>>]

\* The OPT pseudo-record; its TTL field holds the extended rcode and flags.
OPT(flags, options) == [Rrtype |-> TypeOPT, Ttl |-> flags, Option |-> options]

EmptyMsg ==
    [Id |-> 0, Response |-> FALSE, Rcode |-> RcodeSuccess, Compress |-> FALSE,
     Question |-> <<>>, Answer |-> <<>>, Ns |-> <<>>, Extra |-> <<>>]

\* dns.Msg.SetRcode: SetReply (the request's ID and question, the response
\* bit) and then the rcode; the record sections are left as they are.
SetRcode(msg, request, rcode) ==
    [msg EXCEPT !.Id = request.Id, !.Response = TRUE,
                !.Question = request.Question, !.Rcode = rcode]

\* The query a client sends.
Query(id, question, extra) ==
    [EmptyMsg EXCEPT !.Id = id, !.Question = <<question>>, !.Extra = extra]

\* dns.Msg.IsEdns0: the first OPT record of the additional section.
IsEdns0(msg) ==
    IF \E k \in 1..Len(msg.Extra) : msg.Extra[k].Rrtype = TypeOPT
    THEN msg.Extra[CHOOSE k \in 1..Len(msg.Extra) :
                      /\ msg.Extra[k].Rrtype = TypeOPT
                      /\ \A j \in 1..(k - 1) : msg.Extra[j].Rrtype # TypeOPT]
    ELSE Nil

NoMac == ""

macFromMsg(msg) ==
    LET opt == IsEdns0(msg)
    IN  IF opt = Nil THEN NoMac
        ELSE IF \E k \in 1..Len(opt.Option) : opt.Option[k].Code = EDNS0_OPTION_MAC
             THEN opt.Option[CHOOSE k \in 1..Len(opt.Option) :
                      /\ opt.Option[k].Code = EDNS0_OPTION_MAC
                      /\ \A j \in 1..(k - 1) : opt.Option[j].Code # EDNS0_OPTION_MAC].Data
        ELSE NoMac

\* The seconds rounded up instead of truncated.
WholeSecondsRoundedUp(ticks) == (ticks + TicksPerSec - 1) \div TicksPerSec

\* uint32(expiredTime.Sub(now).Seconds()) for a duration that is not negative:
\* the whole seconds in it (every duration of the model is far below 2^32 s).
WholeSeconds(ticks) == ticks \div TicksPerSec

SetTtl(rrs, ttl, keepOPT) ==
    [k \in 1..Len(rrs) |->
        IF keepOPT /\ rrs[k].Rrtype = TypeOPT THEN rrs[k]
        ELSE [rrs[k] EXCEPT !.Ttl = ttl]]

setCachedAnswerTTL(answer, tnow, expiredTime) ==
    IF expiredTime - tnow < 0 THEN answer
    ELSE LET ttl == WholeSeconds(expiredTime - tnow)
         IN  [answer EXCEPT !.Answer = SetTtl(@, ttl, FALSE),
                            !.Ns = SetTtl(@, ttl, FALSE),
                            !.Extra = SetTtl(@, ttl, TRUE)]

\* ttlFromMsg looking at the authority section first.
ttlFromMsgNsFirst(msg) ==
    IF Len(msg.Ns) > 0 THEN msg.Ns[1].Ttl
    ELSE IF Len(msg.Answer) > 0 THEN msg.Answer[1].Ttl
    ELSE 0

ttlFromMsg(msg) ==
    IF Len(msg.Answer) > 0 THEN msg.Answer[1].Ttl
    ELSE IF Len(msg.Ns) > 0 THEN msg.Ns[1].Ttl
    ELSE 0

----------------------------------------------------------------------------
(* Upstreams and the cache *)

osUpstreamConfig ==
    [Name |-> "OS resolver", Type |-> "os", Timeout |-> osTimeout, SendClientInfo |-> FALSE]

OsUpstream == Id("upstream.", "os")

\* p.cfg.Upstream[upstreamNum] for every identifier: nil where none is configured.
upstreamConfigsFromUpstreamNumbers(upstreams) ==
    [k \in 1..Len(upstreams) |->
        LET upstreamNum == TrimPrefix(upstreams[k], "upstream.")
        IN  IF upstreamNum \in DOMAIN cfg.Upstream THEN cfg.Upstream[upstreamNum] ELSE Nil]

\* The head of proxy: the candidates' configurations, or the OS resolver alone.
ProxyCandidates(upstreams) ==
    LET upstreamConfigs == upstreamConfigsFromUpstreamNumbers(upstreams)
    IN  IF Len(upstreamConfigs) = 0
        THEN [configs |-> <<osUpstreamConfig>>, upstreams |-> <<OsUpstream>>]
        ELSE [configs |-> upstreamConfigs, upstreams |-> upstreams]

UpstreamSendClientInfo(uc) == uc.SendClientInfo

\* router.GetClientInfoByMac: what the router knows of the hardware address.
GetClientInfoByMac(mac) ==
    IF mac = "aa:01" THEN [Mac |-> mac, Hostname |-> "laptop"] ELSE Nil

\* dnscache.NewKey: the question and the upstream.
NewKey(msg, upstream) ==
    [Name |-> msg.Question[1].Name, Qtype |-> msg.Question[1].Qtype, Upstream |-> upstream]

NewValue(msg, expire) == [Msg |-> msg, Expire |-> expire]

CacheGet(key) ==
    IF \E e \in cache : e.key = key
    THEN (CHOOSE e \in cache : e.key = key).value
    ELSE Nil

CacheAdd(key, value) ==
    {e \in cache : e.key # key} \cup {[key |-> key, value |-> value]}

\* The guard of the cache lookup.
LooksUpCache(msg) == cfg.cacheOn /\ msg.Question[1].Qtype # TypePTR

\* The guard of the cache insert.
StoresInCache(msg) == cfg.cacheOn

serveStaleCache == cfg.cacheOn /\ cfg.CacheServeStale

\* cachedValue.Expire.After(now)
IsFresh(cachedValue, tnow) == cachedValue.Expire > tnow

\* The answer built from a cached value: a copy with the live query's identity.
FromCache(cachedValue, msg) == SetRcode(cachedValue.Msg, msg, cachedValue.Msg.Rcode)

\* The expiry of an answer stored at tnow.
Expiry(answer, tnow) ==
    IF cfg.CacheTTLOverride > 0
    THEN tnow + cfg.CacheTTLOverride * TicksPerSec
    ELSE tnow + ttlFromMsg(answer) * TicksPerSec

\* The failover test without the count of the candidates.
IsFailoverAnyCount(answer, upstreamConfigs, failoverRcodes) ==
    /\ answer.Rcode # RcodeSuccess
    /\ containRcode(failoverRcodes, answer.Rcode)

\* answer.Rcode != dns.RcodeSuccess && len(upstreamConfigs) > 1 && containRcode(...)
IsFailover(answer, upstreamConfigs, failoverRcodes) ==
    /\ answer.Rcode # RcodeSuccess
    /\ Len(upstreamConfigs) > 1
    /\ containRcode(failoverRcodes, answer.Rcode)

\* The stale answer served whether or not serve-stale is enabled.
ServesStaleAlways(staleAnswer) == staleAnswer # Nil

\* serveStaleCache && staleAnswer != nil
ServesStale(staleAnswer) == serveStaleCache /\ staleAnswer # Nil

StaleAnswer(staleAnswer, tnow) ==
    setCachedAnswerTTL(staleAnswer, tnow, tnow + staleTTL * TicksPerSec)

\* The answer of the handler for a query it refuses.
RefusedAnswer(m) == SetRcode(EmptyMsg, m, RcodeRefused)

\* A SERVFAIL built without SetReply: the query's ID and question are lost.
AllFailedAnswerNoReply(msg) == [EmptyMsg EXCEPT !.Response = TRUE, !.Rcode = RcodeServerFailure]

\* The answer of proxy when every upstream failed.
AllFailedAnswer(msg) == SetRcode(EmptyMsg, msg, RcodeServerFailure)

\* The refusal without the test of Restricted.
RefusesUnmatched(matched, restricted) == ~matched

\* !matched && listenerConfig.Restricted
Refuses(matched, restricted) == ~matched /\ restricted

failoverRcodesOf(lc) ==
    IF lc.Policy # Nil THEN lc.Policy.FailoverRcodeNumbers ELSE <<>>

----------------------------------------------------------------------------
(* Configurations *)

Up0 == Id("upstream.", "0")
Up1 == Id("upstream.", "1")
Up9 == Id("upstream.", "9")

UpstreamTable ==
    [u \in {"0", "1"} |->
        IF u = "0"
        THEN [Name |-> "controld", Type |-> "doh", Timeout |-> 5000, SendClientInfo |-> TRUE]
        ELSE [Name |-> "fallback", Type |-> "legacy", Timeout |-> 0, SendClientInfo |-> FALSE]]

NetworkTable ==
    [nw \in {"lan", "dmz"} |->
        IF nw = "lan"
        THEN [IPNets |-> << {"10.0.0.1"}, {"10.0.0.2", "10.0.0.3"} >>]
        ELSE [IPNets |-> << {"10.0.0.2"} >>]]

Rule(source, targets) == [source |-> source, targets |-> targets]

\* A policy whose rules name configured networks and upstreams, but for one
\* network rule that names a network nobody configured.
PolicyMain ==
    [Name |-> "main",
     Networks |-> << Rule(Id("network.", "gone"), <<Up1>>),
                     Rule(Id("network.", "lan"), <<Up0, Up1>>),
                     Rule(Id("network.", "dmz"), <<Up1>>) >>,
     Rules |-> << Rule(<<"a", ".", "b">>, <<Up1>>),
                  Rule(<<"*", ".", "b">>, <<Up1, Up0>>) >>,
     FailoverRcodeNumbers |-> <<2>>]

\* A policy with empty target lists, targets nobody configured and a domain
\* written in upper case.
PolicyLoose ==
    [Name |-> "loose",
     Networks |-> << Rule(Id("network.", "dmz"), <<>>),
                     Rule(Id("network.", "lan"), <<Up9, Up0>>) >>,
     Rules |-> << Rule(<<"a", ".", "b">>, <<>>),
                  Rule(<<"*", ".", "b">>, <<Up9>>),
                  Rule(<<"C">>, <<Up1>>) >>,
     FailoverRcodeNumbers |-> <<2, 3>>]

Config(policy, restricted, cacheOn, serveStale, ttlOverride) ==
    [listenerNum |-> "0",
     Listener |-> [Policy |-> policy, Restricted |-> restricted],
     Upstream |-> UpstreamTable,
     Network |-> NetworkTable,
     cacheOn |-> cacheOn,
     CacheServeStale |-> serveStale,
     CacheTTLOverride |-> ttlOverride]

Client(net, ip, mac) == [addr |-> [net |-> net, ip |-> ip], mac |-> mac]

Question(name, qtype) == [Name |-> name, Qtype |-> qtype]

\* The additional section of a query from a client whose resolver adds
\* the hardware address (dnsmasq's add-mac), or no EDNS0 at all.
QueryExtra(mac) ==
    IF mac = NoMac THEN <<>>
    ELSE << OPT(0, << [Code |-> 8, Data |-> "subnet"],
                      [Code |-> EDNS0_OPTION_MAC, Data |-> mac] >>) >>

\* What an upstream may answer to msg.
Reply(msg, rcode, answer, ns, extra) ==
    [EmptyMsg EXCEPT !.Id = msg.Id, !.Response = TRUE, !.Rcode = rcode,
                     !.Question = msg.Question, !.Answer = answer,
                     !.Ns = ns, !.Extra = extra]

Replies(msg) ==
    { Reply(msg, RcodeSuccess, <<RR(1, 2), RR(1, 1)>>, <<RR(2, 1)>>, <<RR(1, 0), OPT(7, <<>>)>>),
      Reply(msg, RcodeServerFailure, <<>>, <<>>, <<OPT(7, <<>>)>>),
      Reply(msg, 3, <<>>, <<RR(6, 1)>>, <<>>) }

----------------------------------------------------------------------------
(* The handler of one query: serveDNS's dns.HandlerFunc and proxy *)

\* What a run did, in order: "get" (a cache lookup for candidate k: the value
\* found, and whether it was fresh), "attempt" (one resolve1 on candidate k:
\* the answer, and the client info its context carried), "rebootstrap", "add".
Event(ev, k, ok, ans, ci) == [ev |-> ev, k |-> k, ok |-> ok, ans |-> ans, ci |-> ci]

Origin(kind, k) == [kind |-> kind, k |-> k]

IdleSlot ==
    [pc |-> "idle", m |-> Nil, addr |-> Nil, domain |-> <<>>, matched |-> FALSE,
     arg |-> <<>>, upstreams |-> <<>>, upstreamConfigs |-> <<>>, staleAnswer |-> Nil,
     i |-> 0, n |-> 0, answer |-> Nil, ci |-> Nil, tnow |-> 0, log |-> <<>>,
     from |-> Origin("none", 0), resp |-> Nil, writes |-> 0]

Crashed == \E r \in Slots : h[r].pc = "panic"

\* Lines 48-63: a query arrives; the policy decides between REFUSED and proxy.
Handler(r) ==
    /\ ~Crashed
    /\ h[r].pc = "idle"
    /\ nreq < world.queries
    /\ \E c \in world.clients, q \in world.questions :
          LET m == Query(nreq + 1, q, QueryExtra(c.mac))
              domain == canonicalName(q.Name)
              uf == upstreamFor(cfg.listenerNum, cfg.Listener, c.addr, domain)
              base == [IdleSlot EXCEPT !.m = m, !.addr = c.addr, !.domain = domain,
                                       !.matched = uf.matched, !.arg = uf.upstreams]
          IN  h' = [h EXCEPT ![r] =
                      IF Refuses(uf.matched, cfg.Listener.Restricted)
                      THEN [base EXCEPT !.pc = "write", !.answer = RefusedAnswer(m),
                                        !.from = Origin("refused", 0)]
                      ELSE [base EXCEPT !.pc = "proxy"]]
    /\ nreq' = nreq + 1
    /\ UNCHANGED <<call, g, cfg, world, cache, now>>

\* Lines 197-205: the candidates, and whether the cache is looked up.
ProxyStart(r) ==
    /\ ~Crashed
    /\ h[r].pc = "proxy"
    /\ LET pcand == ProxyCandidates(h[r].arg)
       IN  h' = [h EXCEPT ![r] =
                   [@ EXCEPT !.upstreams = pcand.upstreams,
                             !.upstreamConfigs = pcand.configs,
                             !.staleAnswer = Nil,
                             !.pc = IF LooksUpCache(h[r].m) THEN "lookup" ELSE "resolve",
                             !.i = 1, !.n = 1]]
    /\ UNCHANGED <<call, g, cfg, world, cache, now, nreq>>

\* Where the lookup loop goes after candidate i.
AfterLookup(s) ==
    IF s.i < Len(s.upstreams) THEN [s EXCEPT !.i = s.i + 1]
    ELSE [s EXCEPT !.pc = "resolve", !.i = s.i + 1]

\* Lines 206-220: one turn of the lookup loop.
CacheLookup(r) ==
    /\ ~Crashed
    /\ h[r].pc = "lookup"
    /\ LET s == h[r]
           cachedValue == CacheGet(NewKey(s.m, s.upstreams[s.i]))
           answer == FromCache(cachedValue, s.m)
       IN  h' = [h EXCEPT ![r] =
                   IF cachedValue = Nil
                   THEN AfterLookup([s EXCEPT !.log = Append(@, Event("get", s.i, FALSE, cachedValue, Nil))])
                   ELSE IF IsFresh(cachedValue, now)
                   THEN [s EXCEPT !.tnow = now, !.pc = "write",
                                  !.answer = setCachedAnswerTTL(answer, now, cachedValue.Expire),
                                  !.from = Origin("hit", s.i),
                                  !.log = Append(@, Event("get", s.i, TRUE, cachedValue, Nil))]
                   ELSE AfterLookup([s EXCEPT !.tnow = now, !.staleAnswer = answer,
                                       !.log = Append(@, Event("get", s.i, FALSE, cachedValue, Nil))])]
    /\ UNCHANGED <<call, g, cfg, world, cache, now, nreq>>

\* Lines 239-244: the client info the resolution context carries from here on.
ContextClientInfo(ci, upstreamConfig, msg) ==
    IF UpstreamSendClientInfo(upstreamConfig) /\ GetClientInfoByMac(macFromMsg(msg)) # Nil
    THEN GetClientInfoByMac(macFromMsg(msg))
    ELSE ci

\* The retry without the re-bootstrap.
RetryEventsNoBootstrap(k, ans, ci) == << Event("attempt", k, ans # Nil, ans, ci) >>

\* What the retry of lines 247-250 does before it returns: the re-bootstrap
\* and the second attempt.
RetryEvents(k, ans, ci) ==
    << Event("rebootstrap", k, TRUE, Nil, Nil), Event("attempt", k, ans # Nil, ans, ci) >>

\* Lines 259-260, 238-245: the first attempt on candidate n.  A candidate
\* without configuration is a nil *UpstreamConfig, and reading its Name
\* (line 223) panics.
Resolve(r) ==
    /\ ~Crashed
    /\ h[r].pc = "resolve"
    /\ h[r].n <= Len(h[r].upstreamConfigs)
    /\ LET s == h[r]
           uc == s.upstreamConfigs[s.n]
       IN  IF uc = Nil
           THEN h' = [h EXCEPT ![r] = [s EXCEPT !.pc = "panic"]]
           ELSE LET ci == ContextClientInfo(s.ci, uc, s.m)
                IN  \/ h' = [h EXCEPT ![r] =
                               [s EXCEPT !.ci = ci, !.pc = "retry",
                                         !.log = Append(@, Event("attempt", s.n, FALSE, Nil, ci))]]
                    \/ \E a \in Replies(s.m) :
                          h' = [h EXCEPT ![r] =
                                  [s EXCEPT !.ci = ci, !.pc = "answered", !.answer = a,
                                            !.log = Append(@, Event("attempt", s.n, TRUE, a, ci))]]
    /\ UNCHANGED <<call, g, cfg, world, cache, now, nreq>>

\* Lines 246-256: the re-bootstrap and the second attempt.
Retry(r) ==
    /\ ~Crashed
    /\ h[r].pc = "retry"
    /\ LET s == h[r]
       IN  \/ h' = [h EXCEPT ![r] =
                      [s EXCEPT !.pc = "answered", !.answer = Nil,
                                !.log = @ \o RetryEvents(s.n, Nil, s.ci)]]
           \/ \E a \in Replies(s.m) :
                 h' = [h EXCEPT ![r] =
                         [s EXCEPT !.pc = "answered", !.answer = a,
                                   !.log = @ \o RetryEvents(s.n, a, s.ci)]]
    /\ UNCHANGED <<call, g, cfg, world, cache, now, nreq>>

\* continue that passes over a candidate.
NextCandidateSkips(s) == [s EXCEPT !.pc = "resolve", !.n = s.n + 2, !.answer = Nil]

\* continue: the next candidate.
NextCandidate(s) == [s EXCEPT !.pc = "resolve", !.n = s.n + 1, !.answer = Nil]

\* The key of the insert taken from the first candidate, whichever answered.
InsertKeyOfFirst(s) == NewKey(s.m, s.upstreams[1])

\* Line 286: the key of the insert, dnscache.NewKey(msg, upstreams[n]).
InsertKey(s) == NewKey(s.m, s.upstreams[s.n])

\* Lines 261-289: what proxy does with the outcome of resolve.
Answered(r) ==
    /\ ~Crashed
    /\ h[r].pc = "answered"
    /\ LET s == h[r]
           final == [s.answer EXCEPT !.Compress = TRUE]
           expired == Expiry(final, now)
           stored == setCachedAnswerTTL(final, now, expired)
       IN  IF s.answer = Nil
           THEN /\ h' = [h EXCEPT ![r] =
                           IF ServesStale(s.staleAnswer)
                           THEN [s EXCEPT !.tnow = now, !.pc = "write",
                                          !.answer = StaleAnswer(s.staleAnswer, now),
                                          !.from = Origin("stale", s.n)]
                           ELSE NextCandidate(s)]
                /\ cache' = cache
           ELSE IF IsFailover(s.answer, s.upstreamConfigs, failoverRcodesOf(cfg.Listener))
           THEN /\ h' = [h EXCEPT ![r] = NextCandidate(s)]
                /\ cache' = cache
           ELSE IF StoresInCache(s.m)
           THEN /\ h' = [h EXCEPT ![r] =
                           [s EXCEPT !.tnow = now, !.pc = "write", !.answer = stored,
                                     !.from = Origin("upstream", s.n),
                                     !.log = Append(@, Event("add", s.n, TRUE, NewValue(stored, expired), Nil))]]
                /\ cache' = CacheAdd(InsertKey(s), NewValue(stored, expired))
           ELSE /\ h' = [h EXCEPT ![r] =
                           [s EXCEPT !.pc = "write", !.answer = final,
                                     !.from = Origin("upstream", s.n)]]
                /\ cache' = cache
    /\ UNCHANGED <<call, g, cfg, world, now, nreq>>

\* Lines 291-294: every candidate was tried.
AllFailed(r) ==
    /\ ~Crashed
    /\ h[r].pc = "resolve"
    /\ h[r].n > Len(h[r].upstreamConfigs)
    /\ h' = [h EXCEPT ![r] =
                [@ EXCEPT !.pc = "write", !.answer = AllFailedAnswer(h[r].m),
                          !.from = Origin("servfail", 0)]]
    /\ UNCHANGED <<call, g, cfg, world, cache, now, nreq>>

\* Lines 64-69: the response is written to the client.
WriteMsg(r) ==
    /\ ~Crashed
    /\ h[r].pc = "write"
    /\ h' = [h EXCEPT ![r] =
                [@ EXCEPT !.pc = "done", !.resp = h[r].answer, !.writes = @ + 1]]
    /\ UNCHANGED <<call, g, cfg, world, cache, now, nreq>>

\* The handler returns; its goroutine serves the next query.
Return(r) ==
    /\ ~Crashed
    /\ h[r].pc = "done"
    /\ h' = [h EXCEPT ![r] = IdleSlot]
    /\ UNCHANGED <<call, g, cfg, world, cache, now, nreq>>

\* Time passes.
Tick ==
    /\ ~Crashed
    /\ now < MaxTime
    /\ now' = now + 1
    /\ UNCHANGED <<call, g, cfg, world, cache, nreq, h>>

----------------------------------------------------------------------------
(* Specifications *)

CacheModes ==
    { [cacheOn |-> FALSE, stale |-> FALSE, override |-> 0],
      [cacheOn |-> TRUE, stale |-> FALSE, override |-> 0],
      [cacheOn |-> TRUE, stale |-> TRUE, override |-> 0],
      [cacheOn |-> TRUE, stale |-> TRUE, override |-> 1] }

Lan1 == Client("udp", "10.0.0.1", "aa:01")
Lan2 == Client("tcp", "10.0.0.2", NoMac)
Wan == Client("udp", "192.168.9.9", "bb:02")
Pipe == Client("unix", "10.0.0.1", NoMac)

QAB == Question(<<"a", ".", "b", ".">>, 1)
QXB == Question(<<"X", ".", "b", ".">>, 1)
QC == Question(<<"c", ".">>, 1)
QPTR == Question(<<"a", ".", "b", ".">>, TypePTR)

\* The proxy engine: two queries one after the other, every cache mode.
Init ==
    /\ cfg \in { Config(policy, restricted, mode.cacheOn, mode.stale, mode.override) :
                    policy \in {PolicyMain, PolicyLoose}, restricted \in {FALSE},
                    mode \in CacheModes }
    /\ world = [clients |-> {Lan1}, questions |-> {QAB, QC, QPTR},
                queries |-> MaxRequests]
    /\ cache = {}
    /\ now = 0
    /\ nreq = 0
    /\ h = [r \in Slots |-> IdleSlot]
    /\ call = NoCall
    /\ g = NoGroup

\* The policy matcher: one query, every policy, client and question.
InitPolicy ==
    /\ cfg \in { Config(policy, restricted, cacheOn, FALSE, 0) :
                    policy \in {Nil, PolicyMain, PolicyLoose}, restricted \in BOOLEAN,
                    cacheOn \in BOOLEAN }
    /\ world = [clients |-> {Lan1, Lan2, Wan, Pipe}, questions |-> {QAB, QXB, QC, QPTR},
                queries |-> 1]
    /\ cache = {}
    /\ now = 0
    /\ nreq = 0
    /\ h = [r \in Slots |-> IdleSlot]
    /\ call = NoCall
    /\ g = NoGroup

Step(r) ==
    \/ Handler(r)
    \/ ProxyStart(r)
    \/ CacheLookup(r)
    \/ Resolve(r)
    \/ Retry(r)
    \/ Answered(r)
    \/ AllFailed(r)
    \/ WriteMsg(r)
    \/ Return(r)

Next == Step("r1") \/ Tick

Spec == Init /\ [][Next]_vars

SpecPolicy == InitPolicy /\ [][Next]_vars

\* Requests served at the same time: every query gets a handler goroutine
\* of its own, two of them at a time here, on a listener with a cache that
\* serves stale entries.
InitConcurrent ==
    /\ cfg = Config(PolicyMain, FALSE, TRUE, TRUE, 0)
    /\ world = [clients |-> {Lan1}, questions |-> {QC}, queries |-> MaxRequests]
    /\ cache = {}
    /\ now = 0
    /\ nreq = 0
    /\ h = [r \in Slots |-> IdleSlot]
    /\ call = NoCall
    /\ g = NoGroup

NextConcurrent == (\E r \in Slots : Step(r)) \/ Tick

SpecConcurrent == InitConcurrent /\ [][NextConcurrent]_vars

----------------------------------------------------------------------------
(* The string functions applied on their own *)

MaxLen == 3

\* The strings of at most n characters out of chars.
RECURSIVE StringsUpTo(_, _)
StringsUpTo(chars, n) ==
    IF n = 0 THEN {<<>>}
    ELSE LET shorter == StringsUpTo(chars, n - 1)
         IN  shorter \cup { Append(s, c) : s \in shorter, c \in chars }

\* A call of wildcardMatches, as at line 176, before it returns.
WildcardCall(wildcard, domain) ==
    [fn |-> "wildcardMatches", wildcard |-> wildcard, domain |-> domain,
     returned |-> FALSE, result |-> FALSE]

\* A name to canonicalize, as at line 50, and the results of doing so again
\* and again.
CanonicalCall(fqdn) == [fn |-> "canonicalName", fqdn |-> fqdn, results |-> <<>>]

\* No listener serves queries while the functions are applied on their own.
InitStrings ==
    /\ call \in { WildcardCall(wildcard, domain) :
                     wildcard \in StringsUpTo({"a", ".", "*"}, MaxLen),
                     domain \in StringsUpTo({"a", ".", "*"}, MaxLen) }
                \cup { CanonicalCall(fqdn) : fqdn \in StringsUpTo({"A", "b", " ", "."}, MaxLen) }
    /\ cfg = Config(Nil, FALSE, FALSE, FALSE, 0)
    /\ world = [clients |-> {}, questions |-> {}, queries |-> 0]
    /\ cache = {}
    /\ now = 0
    /\ nreq = 0
    /\ h = [r \in Slots |-> IdleSlot]
    /\ g = NoGroup

WildcardMatches ==
    /\ call.fn = "wildcardMatches"
    /\ ~call.returned
    /\ call' = [call EXCEPT !.returned = TRUE,
                            !.result = wildcardMatches(call.wildcard, call.domain)]
    /\ UNCHANGED <<g, cfg, world, cache, now, nreq, h>>

\* canonicalName applied to the name, and then to its own result.
CanonicalName ==
    /\ call.fn = "canonicalName"
    /\ Len(call.results) < 2
    /\ LET fqdn == IF call.results = <<>> THEN call.fqdn
                   ELSE call.results[Len(call.results)]
       IN  call' = [call EXCEPT !.results = Append(@, canonicalName(fqdn))]
    /\ UNCHANGED <<g, cfg, world, cache, now, nreq, h>>

NextStrings == WildcardMatches \/ CanonicalName

SpecStrings == InitStrings /\ [][NextStrings]_vars

----------------------------------------------------------------------------
(* serveDNS's servers: lines 37-47 and 72-111 *)

\* A nil error.
NoError == ""

\* One g.Go function with its dns.Server s: where the function is, whether
\* the goroutine waiting for ctx.Done() has been started and has called
\* s.Shutdown(), and s's own flag `started`, which ListenAndServe sets once
\* it has bound its address and Shutdown clears.
ServerTask(net, local) ==
    [Net |-> net, local |-> local, pc |-> "start", watcher |-> "none",
     started |-> FALSE, err |-> NoError]

\* The functions the loop of lines 73-110 hands to g.Go, in its order.
ServerTasks(needLocalIPv6Listener) ==
    IF needLocalIPv6Listener
    THEN << ServerTask("udp", TRUE), ServerTask("udp", FALSE),
            ServerTask("tcp", TRUE), ServerTask("tcp", FALSE) >>
    ELSE << ServerTask("udp", FALSE), ServerTask("tcp", FALSE) >>

\* serveDNS is called: nothing is allocated or started yet.
InitServe ==
    /\ \E needLocalIPv6Listener \in BOOLEAN :
          g = [pc |-> "allocateIP", needLocalIPv6Listener |-> needLocalIPv6Listener,
               tasks |-> <<>>, done |-> FALSE, err |-> NoError, ret |-> NoError]
    /\ cfg = Config(Nil, FALSE, FALSE, FALSE, 0)
    /\ world = [clients |-> {}, questions |-> {}, queries |-> 0]
    /\ cache = {}
    /\ now = 0
    /\ nreq = 0
    /\ h = [r \in Slots |-> IdleSlot]
    /\ call = NoCall

\* Lines 39-43 and 72: the listen IP is allocated, or serveDNS returns allocErr.
AllocateIP ==
    /\ g.pc = "allocateIP"
    /\ \/ g' = [g EXCEPT !.pc = "returned", !.ret = "allocate ip"]
       \/ g' = [g EXCEPT !.pc = "go"]
    /\ UNCHANGED <<call, cfg, world, cache, now, nreq, h>>

\* Lines 73-110: g.Go starts the next function in a goroutine of its own;
\* after the last one serveDNS calls g.Wait.
Go ==
    /\ g.pc = "go"
    /\ LET all == ServerTasks(g.needLocalIPv6Listener)
           tasks == Append(g.tasks, all[Len(g.tasks) + 1])
       IN  g' = [g EXCEPT !.tasks = tasks,
                          !.pc = IF Len(tasks) = Len(all) THEN "wait" ELSE "go"]
    /\ UNCHANGED <<call, cfg, world, cache, now, nreq, h>>

\* Lines 79-87, 95-103: the function builds its server and starts the
\* goroutine that waits for ctx.Done().
StartWatcher(t) ==
    /\ g.tasks[t].pc = "start"
    /\ g' = [g EXCEPT !.tasks[t].pc = "listen", !.tasks[t].watcher = "waiting"]
    /\ UNCHANGED <<call, cfg, world, cache, now, nreq, h>>

\* Lines 88, 104: s.ListenAndServe() either fails to bind its address and
\* returns the error, or binds it, sets s.started and serves.
ListenAndServe(t) ==
    /\ g.tasks[t].pc = "listen"
    /\ \/ g' = [g EXCEPT !.tasks[t].pc = "failed",
                         !.tasks[t].err = "bind " \o g.tasks[t].Net]
       \/ g' = [g EXCEPT !.tasks[t].pc = "serving", !.tasks[t].started = TRUE]
    /\ UNCHANGED <<call, cfg, world, cache, now, nreq, h>>

\* s.Shutdown() on a server that has not started: it returns the error
\* "server not started" and leaves the server as it is.
ShutdownNotStarted(s) == s

\* s.Shutdown() on a server that has started: its sockets are closed and
\* s.started is cleared, which ends ListenAndServe.
ShutdownStarted(s) == [s EXCEPT !.started = FALSE]

\* Lines 84-87, 100-103: ctx is done and the waiting goroutine calls
\* s.Shutdown(), whose error it drops.
Shutdown(t) ==
    /\ g.tasks[t].watcher = "waiting"
    /\ g.done
    /\ g' = [g EXCEPT !.tasks[t] =
                [ (IF @.started THEN ShutdownStarted(@) ELSE ShutdownNotStarted(@))
                    EXCEPT !.watcher = "done" ]]
    /\ UNCHANGED <<call, cfg, world, cache, now, nreq, h>>

\* What errgroup does with the value a function returns: the first error
\* that is not nil is kept and cancels ctx.
GroupDone(err) ==
    IF err # NoError /\ g.err = NoError
    THEN [g EXCEPT !.err = err, !.done = TRUE]
    ELSE g

\* Lines 88-91, 104-108: ListenAndServe has returned, with an error or, after
\* a shutdown, with nil; the function of a primary server returns the error,
\* the function of a ::1 server logs it and returns nil.
TaskReturn(t) ==
    /\ \/ g.tasks[t].pc = "failed"
       \/ g.tasks[t].pc = "serving" /\ ~g.tasks[t].started
    /\ LET err == IF g.tasks[t].local THEN NoError ELSE g.tasks[t].err
       IN  g' = [GroupDone(err) EXCEPT !.tasks[t].pc = "returned"]
    /\ UNCHANGED <<call, cfg, world, cache, now, nreq, h>>

\* Line 111: g.Wait() returns once every function has returned; it cancels
\* ctx and returns the first error.
Wait ==
    /\ g.pc = "wait"
    /\ \A t \in 1..Len(g.tasks) : g.tasks[t].pc = "returned"
    /\ g' = [g EXCEPT !.pc = "returned", !.done = TRUE, !.ret = g.err]
    /\ UNCHANGED <<call, cfg, world, cache, now, nreq, h>>

ServerStep(t) ==
    \/ StartWatcher(t)
    \/ ListenAndServe(t)
    \/ Shutdown(t)
    \/ TaskReturn(t)

NextServe ==
    \/ AllocateIP
    \/ Go
    \/ \E t \in 1..Len(g.tasks) : ServerStep(t)
    \/ Wait

SpecServe == InitServe /\ [][NextServe]_vars

----------------------------------------------------------------------------
(* Properties *)

Started(s) == s.pc \notin {"idle", "proxy"} /\ s.from.kind # "refused"

Finished(s) == s.pc \in {"write", "done"}

AttemptsOn(s, k) == SelectSeq(s.log, LAMBDA e : e.ev = "attempt" /\ e.k = k)

ResolveEventsOn(s, k) ==
    SelectSeq(s.log, LAMBDA e : e.ev \in {"attempt", "rebootstrap"} /\ e.k = k)

\* Both attempts on every candidate failed.
EveryCandidateFailed(s) ==
    /\ Len(s.upstreamConfigs) > 0
    /\ \A k \in 1..Len(s.upstreamConfigs) :
          /\ Len(AttemptsOn(s, k)) = 2
          /\ \A j \in 1..2 : ~AttemptsOn(s, k)[j].ok

\* C1, as the claim states it: no handler run aborts without a response, and
\* a run that has ended wrote exactly one response, which is REFUSED,
\* SERVFAIL, or an answer of an upstream or of the cache.
C1_EveryQueryIsAnswered ==
    \A r \in Slots :
        /\ h[r].pc # "panic"
        /\ h[r].pc = "done" =>
              /\ h[r].writes = 1
              /\ h[r].resp # Nil
              /\ h[r].from.kind \in {"refused", "servfail", "upstream", "hit", "stale"}

\* C2: when both attempts on every candidate upstream failed and no stale
\* entry was found, the answer of proxy is SERVFAIL with the query's
\* transaction ID and question section, and nothing else in it.
C2_AllFailedIsServfail ==
    \A r \in Slots :
        (Finished(h[r]) /\ EveryCandidateFailed(h[r]) /\ h[r].staleAnswer = Nil) =>
            /\ h[r].answer.Rcode = RcodeServerFailure
            /\ h[r].answer.Id = h[r].m.Id
            /\ h[r].answer.Question = h[r].m.Question
            /\ h[r].answer.Response
            /\ h[r].pc = "done" => h[r].resp = h[r].answer

C2_Witness ==
    \E r \in Slots :
        /\ h[r].pc = "done"
        /\ EveryCandidateFailed(h[r])
        /\ Len(h[r].upstreamConfigs) = 2
        /\ h[r].staleAnswer = Nil
        /\ cfg.cacheOn
        /\ h[r].resp.Rcode = RcodeServerFailure
        /\ h[r].resp.Id = 2

\* C3: when a domain rule of the policy matches the query domain, upstreamFor
\* reports a match with the upstream list of the first such rule, whatever
\* the source address is and whichever network rule holds it.
C3_DomainRuleWins ==
    \A r \in Slots :
        (h[r].pc # "idle" /\ cfg.Listener.Policy # Nil) =>
            \A k \in 1..Len(cfg.Listener.Policy.Rules) :
                ( /\ DomainRuleMatches(cfg.Listener.Policy.Rules[k], h[r].domain)
                  /\ \A j \in 1..(k - 1) :
                        ~DomainRuleMatches(cfg.Listener.Policy.Rules[j], h[r].domain) )
                => /\ h[r].matched
                   /\ h[r].arg = cfg.Listener.Policy.Rules[k].targets

C3_Witness ==
    \E r \in Slots :
        /\ h[r].pc # "idle"
        /\ cfg.Listener.Policy # Nil
        /\ \E k \in 1..Len(cfg.Listener.Policy.Networks) :
              /\ NetworkRuleMatches(cfg.Listener.Policy.Networks[k], SourceIP(h[r].addr))
              /\ cfg.Listener.Policy.Networks[k].targets # h[r].arg
              /\ cfg.Listener.Policy.Networks[k].targets # <<>>
        /\ \E k \in 1..Len(cfg.Listener.Policy.Rules) :
              /\ DomainRuleMatches(cfg.Listener.Policy.Rules[k], h[r].domain)
              /\ h[r].arg = cfg.Listener.Policy.Rules[k].targets
        /\ h[r].matched

\* The source IP is in no block of a configured network that a network rule
\* of the policy names, and no domain rule matches the domain.
MatchesNothing(s) ==
    \/ cfg.Listener.Policy = Nil
    \/ /\ \A k \in 1..Len(cfg.Listener.Policy.Networks) :
             \A nw \in DOMAIN cfg.Network :
                 cfg.Listener.Policy.Networks[k].source = Id("network.", nw) =>
                     \A b \in 1..Len(cfg.Network[nw].IPNets) :
                         SourceIP(s.addr) \notin cfg.Network[nw].IPNets[b]
       /\ \A k \in 1..Len(cfg.Listener.Policy.Rules) :
             /\ cfg.Listener.Policy.Rules[k].source # s.domain
             /\ ~wildcardMatches(cfg.Listener.Policy.Rules[k].source, s.domain)

\* C4: a query that matches no network and no domain rule is, on a Restricted
\* listener, answered REFUSED with no resolution attempt and no cache access;
\* on another listener it is proxied to "upstream.<listener number>".
C4_UnmatchedQuery ==
    \A r \in Slots :
        (h[r].pc # "idle" /\ MatchesNothing(h[r])) =>
            IF cfg.Listener.Restricted
            THEN /\ Finished(h[r])
                 /\ h[r].answer.Rcode = RcodeRefused
                 /\ h[r].answer.Id = h[r].m.Id
                 /\ h[r].log = <<>>
                 /\ cache = {}
                 /\ h[r].pc = "done" => h[r].resp = h[r].answer
            ELSE /\ h[r].arg = << Id("upstream.", cfg.listenerNum) >>
                 /\ h[r].from.kind \notin {"refused", "servfail"} \/ EveryCandidateFailed(h[r])
                 /\ Started(h[r]) => h[r].upstreams = << Id("upstream.", cfg.listenerNum) >>

C4_Witness ==
    \E r \in Slots :
        /\ h[r].pc = "done"
        /\ MatchesNothing(h[r])
        /\ cfg.Listener.Policy # Nil
        /\ cfg.Listener.Restricted
        /\ cfg.cacheOn
        /\ h[r].m.Question[1].Qtype # TypePTR
        /\ h[r].resp.Rcode = RcodeRefused

\* C5, as the claim states it: no query of type PTR is answered from the
\* cache, and the cache holds no entry whose key was built from a PTR query.
C5_PtrNeverCached ==
    /\ \A e \in cache : e.key.Qtype # TypePTR
    /\ \A r \in Slots :
          (h[r].pc # "idle" /\ h[r].m.Question[1].Qtype = TypePTR) =>
              /\ h[r].from.kind \notin {"hit", "stale"}
              /\ \A j \in 1..Len(h[r].log) : h[r].log[j].ev \notin {"get", "add"}

\* An answer an upstream gave whose rcode the failover rule names.
IsFailoverRcode(ans) ==
    /\ ans.Rcode # RcodeSuccess
    /\ \E k \in 1..Len(failoverRcodesOf(cfg.Listener)) :
          failoverRcodesOf(cfg.Listener)[k] = ans.Rcode

\* C6: with two candidates, an answer of the first with a failover rcode is
\* neither returned nor cached, and the second candidate is queried next,
\* before any response is chosen; with one candidate, an answer with a
\* failover rcode is the final answer.
C6_FailoverRcode ==
    \A r \in Slots : \A j \in 1..Len(h[r].log) :
        LET s == h[r]
            e == s.log[j]
        IN  (e.ev = "attempt" /\ e.ok /\ IsFailoverRcode(e.ans)) =>
                /\ (Len(s.upstreamConfigs) = 2 /\ e.k = 1) =>
                      /\ s.from # Origin("upstream", 1)
                      /\ \A i \in 1..Len(s.log) : ~(s.log[i].ev = "add" /\ s.log[i].k = 1)
                      /\ \A c \in cache : c.value.Msg.Id = s.m.Id => c.key.Upstream # s.upstreams[1]
                      /\ j < Len(s.log) => (s.log[j + 1].ev = "attempt" /\ s.log[j + 1].k = 2)
                      /\ j = Len(s.log) => (s.pc = "answered" \/ (s.pc = "resolve" /\ s.n = 2))
                /\ (Len(s.upstreamConfigs) = 1 /\ s.pc # "answered") =>
                      /\ Finished(s)
                      /\ s.from = Origin("upstream", 1)
                      /\ s.answer.Rcode = e.ans.Rcode
                      /\ j = Len(s.log) \/ (j + 1 = Len(s.log) /\ s.log[j + 1].ev = "add")
                      /\ s.pc = "done" => s.resp = s.answer

C6_Witness ==
    \E r \in Slots : \E j \in 1..Len(h[r].log) :
        /\ h[r].pc = "done"
        /\ Len(h[r].upstreamConfigs) = 2
        /\ h[r].log[j].ev = "attempt" /\ h[r].log[j].k = 1 /\ h[r].log[j].ok
        /\ IsFailoverRcode(h[r].log[j].ans)
        /\ h[r].from = Origin("upstream", 2)
        /\ cfg.cacheOn

\* The cache entry of candidate k of run s.
EntryOf(s, k) == CacheGet(NewKey(s.m, s.upstreams[k]))

\* Every record of rrs but the OPT ones has TTL ttl, and rrs is `of` otherwise.
TtlsAre(rrs, of, ttl) ==
    /\ Len(rrs) = Len(of)
    /\ \A k \in 1..Len(rrs) :
          /\ rrs[k].Rrtype = of[k].Rrtype
          /\ rrs[k].Option = of[k].Option
          /\ rrs[k].Ttl = IF rrs[k].Rrtype = TypeOPT THEN of[k].Ttl ELSE ttl

\* C7: an answer served from the cache is the first unexpired entry in
\* candidate order, with the live query's transaction ID and every non-OPT
\* TTL set to the whole seconds left until the entry expires; no upstream was
\* contacted and nothing was added to the cache.  And a lookup that goes on to
\* the upstreams found no unexpired entry.
C7_FreshHit ==
    \A r \in Slots :
        LET s == h[r] IN
        /\ s.from.kind = "hit" =>
              LET v == EntryOf(s, s.from.k)
                  left == (v.Expire - s.tnow) \div TicksPerSec
              IN  /\ cfg.cacheOn /\ s.m.Question[1].Qtype # TypePTR
                  /\ v # Nil /\ v.Expire > s.tnow
                  /\ \A k \in 1..(s.from.k - 1) :
                        EntryOf(s, k) = Nil \/ EntryOf(s, k).Expire <= s.tnow
                  /\ s.answer.Id = s.m.Id
                  /\ s.answer.Question = s.m.Question
                  /\ s.answer.Rcode = v.Msg.Rcode
                  /\ TtlsAre(s.answer.Answer, v.Msg.Answer, left)
                  /\ TtlsAre(s.answer.Ns, v.Msg.Ns, left)
                  /\ TtlsAre(s.answer.Extra, v.Msg.Extra, left)
                  /\ \A j \in 1..Len(s.log) : s.log[j].ev = "get"
                  /\ s.pc = "done" => s.resp = s.answer
        /\ (s.pc \in {"resolve", "retry", "answered"} /\ LooksUpCache(s.m)) =>
              \A k \in 1..Len(s.upstreams) :
                  EntryOf(s, k) = Nil \/ EntryOf(s, k).Expire <= now

C7_Witness ==
    \E r \in Slots :
        /\ h[r].pc = "done"
        /\ h[r].from = Origin("hit", 2)
        /\ Len(h[r].resp.Answer) > 0
        /\ h[r].resp.Answer[1].Ttl = 1
        /\ EntryOf(h[r], 2).Msg.Answer[1].Ttl = 2
        /\ EntryOf(h[r], 2).Msg.Id # h[r].resp.Id
        /\ h[r].resp.Id = h[r].m.Id

LastEvents(s, k) == SubSeq(s.log, Len(s.log) - k + 1, Len(s.log))

\* C8: a fresh hit is an entry that has not expired.  A stale entry is served
\* only with serve-stale enabled, right after the second attempt on a
\* candidate failed, with every non-OPT TTL 60, and nothing is tried after it.
C8_StaleServing ==
    \A r \in Slots :
        LET s == h[r] IN
        /\ s.from.kind = "hit" =>
              /\ s.log[Len(s.log)].ev = "get"
              /\ s.log[Len(s.log)].ans.Expire > s.tnow
        /\ s.from.kind = "stale" =>
              /\ cfg.cacheOn /\ cfg.CacheServeStale
              /\ Finished(s)
              /\ Len(s.log) >= 3
              /\ LET last == LastEvents(s, 3)
                 IN  /\ last[1].ev = "attempt" /\ ~last[1].ok /\ last[1].k = s.from.k
                     /\ last[2].ev = "rebootstrap" /\ last[2].k = s.from.k
                     /\ last[3].ev = "attempt" /\ ~last[3].ok /\ last[3].k = s.from.k
              /\ \E j \in 1..Len(s.log) :
                    /\ s.log[j].ev = "get" /\ ~s.log[j].ok /\ s.log[j].ans # Nil
                    /\ s.log[j].ans.Expire <= s.tnow
                    /\ s.answer.Rcode = s.log[j].ans.Msg.Rcode
                    /\ TtlsAre(s.answer.Answer, s.log[j].ans.Msg.Answer, staleTTL)
                    /\ TtlsAre(s.answer.Ns, s.log[j].ans.Msg.Ns, staleTTL)
                    /\ TtlsAre(s.answer.Extra, s.log[j].ans.Msg.Extra, staleTTL)
              /\ s.answer.Id = s.m.Id
        /\ (~cfg.CacheServeStale /\ Finished(s)) =>
              \/ s.from.kind \in {"refused", "servfail"}
              \/ s.from.kind = "upstream" /\ s.log[Len(s.log)].ev \in {"attempt", "add"}
              \/ s.from.kind = "hit" /\ s.log[Len(s.log)].ans.Expire > s.tnow

C8_Witness ==
    \E r \in Slots :
        /\ h[r].pc = "done"
        /\ h[r].from = Origin("stale", 1)
        /\ Len(h[r].upstreamConfigs) = 2
        /\ Len(h[r].resp.Ns) > 0
        /\ h[r].resp.Ns[1].Ttl = staleTTL
        /\ h[r].resp.Id = h[r].m.Id

\* C9: the attempts on one candidate are a first attempt alone when it
\* succeeded, and otherwise the failed first attempt, one re-bootstrap and
\* one second attempt, in this order and with nothing in between; after the
\* second failure the run has left the candidate.
C9_RetryOnce ==
    \A r \in Slots : \A k \in 1..Len(h[r].upstreamConfigs) :
        LET s == h[r]
            ev == ResolveEventsOn(s, k)
        IN  /\ Len(ev) \in {0, 1, 3}
            /\ Len(ev) >= 1 => ev[1].ev = "attempt"
            /\ (Len(ev) = 1 /\ ~ev[1].ok) => (s.pc = "retry" /\ s.n = k)
            /\ Len(ev) = 3 =>
                  /\ ~ev[1].ok
                  /\ ev[2].ev = "rebootstrap"
                  /\ ev[3].ev = "attempt"
                  /\ \E j \in 1..(Len(s.log) - 2) :
                        s.log[j] = ev[1] /\ s.log[j + 1] = ev[2] /\ s.log[j + 2] = ev[3]
                  /\ (~ev[3].ok /\ s.pc \in {"resolve", "retry"}) => s.n > k
            /\ (s.pc \in {"resolve", "retry", "answered"} /\ s.n > k) => Len(ev) >= 1

C9_Witness ==
    \E r \in Slots :
        /\ h[r].pc = "done"
        /\ Len(h[r].upstreamConfigs) = 2
        /\ Len(ResolveEventsOn(h[r], 1)) = 3
        /\ ~ResolveEventsOn(h[r], 1)[3].ok
        /\ Len(ResolveEventsOn(h[r], 2)) = 3
        /\ ResolveEventsOn(h[r], 2)[3].ok
        /\ h[r].from = Origin("upstream", 2)

\* None of the identifiers resolves to a configured upstream.
NoneConfigured(upstreams) ==
    \A k \in 1..Len(upstreams) :
        \A u \in DOMAIN cfg.Upstream : upstreams[k] # Id("upstream.", u)

\* C10, as the claim states it: when none of the identifiers given to proxy
\* is a configured upstream, the candidates are the OS resolver alone.
C10_OsResolverFallback ==
    \A r \in Slots :
        (Started(h[r]) /\ NoneConfigured(h[r].arg)) =>
            /\ h[r].upstreamConfigs = <<osUpstreamConfig>>
            /\ h[r].upstreamConfigs[1].Type = "os"
            /\ h[r].upstreamConfigs[1].Timeout = osTimeout
            /\ h[r].pc # "panic"


Stars(s) == {k \in 1..Len(s) : s[k] = "*"}

StartsWith(s, p) == Len(p) <= Len(s) /\ \A k \in 1..Len(p) : s[k] = p[k]

EndsWith(s, p) == Len(p) <= Len(s) /\ \A k \in 1..Len(p) : s[Len(s) - Len(p) + k] = p[k]

\* C11: wildcardMatches(P, D) is true exactly when P has one '*' and, with
\* P = prefix*suffix, both are non-empty and D starts with prefix and ends
\* with suffix, or only suffix is non-empty and D ends with it, or only prefix
\* is non-empty and D starts with it.
C11_WildcardMatches ==
    (call.fn = "wildcardMatches" /\ call.returned) =>
        ( call.result <=>
            /\ Cardinality(Stars(call.wildcard)) = 1
            /\ LET P == call.wildcard
                   D == call.domain
                   star == CHOOSE k \in Stars(P) : TRUE
                   prefix == SubSeq(P, 1, star - 1)
                   suffix == SubSeq(P, star + 1, Len(P))
               IN  \/ prefix # <<>> /\ suffix # <<>> /\ StartsWith(D, prefix) /\ EndsWith(D, suffix)
                   \/ prefix = <<>> /\ suffix # <<>> /\ EndsWith(D, suffix)
                   \/ prefix # <<>> /\ suffix = <<>> /\ StartsWith(D, prefix) )

C11_Witness ==
    /\ call.fn = "wildcardMatches"
    /\ call.returned
    /\ call.result
    /\ call.wildcard = <<"a", "*", ".">>
    /\ call.domain = <<"a", "a", ".">>

\* C12, as the claim states it: canonicalName applied to its own result
\* returns that result.
C12_CanonicalNameIdempotent ==
    (call.fn = "canonicalName" /\ Len(call.results) = 2) =>
        call.results[2] = call.results[1]


\* The function of a primary server has returned an error.
PrimaryFailed ==
    \E t \in 1..Len(g.tasks) :
        ~g.tasks[t].local /\ g.tasks[t].pc = "returned" /\ g.tasks[t].err # NoError

\* C13, as the claim states it: once a primary server has ended with an
\* error, whatever the servers and the cancellation did in between, the
\* group does not come to rest before every server is shut down and serveDNS
\* has returned the first error.
C13_BindFailureEndsGroup ==
    (g.pc # "none" /\ PrimaryFailed) =>
        /\ g.done
        /\ g.err # NoError
        /\ \/ ENABLED NextServe
           \/ /\ g.pc = "returned"
              /\ g.ret = g.err
              /\ \A t \in 1..Len(g.tasks) : ~g.tasks[t].started


\* The index in s.log of the last attempt on candidate k, 0 when there is none.
LastAttemptOn(s, k) ==
    IF \E j \in 1..Len(s.log) : s.log[j].ev = "attempt" /\ s.log[j].k = k
    THEN CHOOSE j \in 1..Len(s.log) :
            /\ s.log[j].ev = "attempt" /\ s.log[j].k = k
            /\ \A i \in (j + 1)..Len(s.log) : ~(s.log[i].ev = "attempt" /\ s.log[i].k = k)
    ELSE 0

\* C14, as the claim states it: an answer with a failover rcode is discarded
\* only while another candidate remains after the one that gave it; the
\* answer of the last remaining candidate is the final answer, whatever its
\* rcode and however many candidates were configured.
C14_LastCandidateIsFinal ==
    \A r \in Slots : \A j \in 1..Len(h[r].log) :
        LET s == h[r]
            e == s.log[j]
        IN  (e.ev = "attempt" /\ e.ok /\ Finished(s)) =>
                /\ (e.k < Len(s.upstreamConfigs) /\ IsFailoverRcode(e.ans)) =>
                      s.from # Origin("upstream", e.k)
                /\ e.k = Len(s.upstreamConfigs) =>
                      /\ s.from = Origin("upstream", e.k)
                      /\ s.answer.Rcode = e.ans.Rcode
                      /\ s.pc = "done" => s.resp = s.answer


\* The indices in s.log of the contacts with upstreams.
Contacts(s) == {j \in 1..Len(s.log) : s.log[j].ev \in {"attempt", "rebootstrap"}}

\* Candidate k has been left behind at s.log[j]: its second attempt failed, or
\* its answer has a failover rcode and there are several candidates.
LeftBehind(s, j, k) ==
    /\ s.log[j].ev = "attempt" /\ s.log[j].k = k
    /\ \/ /\ ~s.log[j].ok
          /\ j >= 3
          /\ s.log[j - 1].ev = "rebootstrap" /\ s.log[j - 1].k = k
          /\ s.log[j - 2].ev = "attempt" /\ s.log[j - 2].k = k /\ ~s.log[j - 2].ok
       \/ s.log[j].ok /\ IsFailoverRcode(s.log[j].ans) /\ Len(s.upstreamConfigs) > 1

\* C15: the upstreams are contacted one after the other in the order of the
\* candidates: the first contact is with candidate 1, a contact follows one
\* with the same candidate or is the first with the next candidate, made only
\* once the previous candidate was left behind; SERVFAIL is chosen only after
\* the last candidate was left behind, and once a response is chosen no
\* contact follows the one that produced it.
C15_CandidatesInOrder ==
    \A r \in Slots :
        LET s == h[r] IN
        /\ \A j \in Contacts(s) :
              /\ s.log[j].k \in 1..Len(s.upstreamConfigs)
              /\ (\A i \in 1..(j - 1) : i \notin Contacts(s)) => s.log[j].k = 1
              /\ (j > 1 /\ (j - 1) \in Contacts(s)) =>
                    \/ s.log[j].k = s.log[j - 1].k
                    \/ /\ s.log[j].k = s.log[j - 1].k + 1
                       /\ LeftBehind(s, j - 1, s.log[j - 1].k)
              /\ (j > 1 /\ (j - 1) \notin Contacts(s)) => s.log[j - 1].ev = "get"
        /\ s.from.kind = "servfail" =>
              /\ Len(s.log) > 0
              /\ LeftBehind(s, Len(s.log), Len(s.upstreamConfigs))
        /\ s.from.kind = "upstream" =>
              LET j == LastAttemptOn(s, s.from.k)
              IN  /\ j # 0 /\ s.log[j].ok
                  /\ \A i \in (j + 1)..Len(s.log) : s.log[i].ev = "add" /\ i = Len(s.log)
        /\ s.from.kind = "stale" =>
              /\ Len(s.log) > 0
              /\ s.log[Len(s.log)].ev = "attempt" /\ s.log[Len(s.log)].k = s.from.k
        /\ s.from.kind \in {"hit", "refused"} => Contacts(s) = {}

C15_Witness ==
    \E r \in Slots :
        /\ h[r].pc = "done"
        /\ Len(h[r].upstreamConfigs) = 2
        /\ h[r].from = Origin("upstream", 2)
        /\ Len(h[r].log) = 7
        /\ h[r].log[1].ev = "get" /\ h[r].log[2].ev = "get"
        /\ h[r].log[3].ev = "attempt" /\ h[r].log[3].k = 1 /\ ~h[r].log[3].ok
        /\ h[r].log[5].ev = "attempt" /\ h[r].log[5].k = 1 /\ ~h[r].log[5].ok
        /\ h[r].log[6].ev = "attempt" /\ h[r].log[6].k = 2 /\ h[r].log[6].ok
        /\ h[r].log[7].ev = "add"


\* The seconds an answer of an upstream is kept for, as the claim gives them.
SecondsKept(a) ==
    IF cfg.CacheTTLOverride > 0 THEN cfg.CacheTTLOverride
    ELSE IF a.Answer # <<>> THEN Head(a.Answer).Ttl
    ELSE IF a.Ns # <<>> THEN Head(a.Ns).Ttl
    ELSE 0

\* C16: when the answer of an upstream is final and there is a cache, the
\* entry under (query, that upstream) expires T seconds after the insert and
\* holds the response, whose TTLs but those of OPT records are all T; T is
\* the TTL override when it is positive, else the TTL of the first answer
\* record, else of the first authority record, else 0.
C16_CacheInsert ==
    \A r \in Slots :
        LET s == h[r] IN
        (Finished(s) /\ s.from.kind = "upstream" /\ cfg.cacheOn) =>
            LET a == s.log[LastAttemptOn(s, s.from.k)].ans
                T == SecondsKept(a)
                v == EntryOf(s, s.from.k)
            IN  /\ v # Nil
                /\ v.Expire = s.tnow + T * TicksPerSec
                /\ v.Msg = s.answer
                /\ s.log[Len(s.log)] = Event("add", s.from.k, TRUE, v, Nil)
                /\ s.answer.Id = a.Id /\ s.answer.Rcode = a.Rcode
                /\ s.answer.Question = a.Question
                /\ TtlsAre(s.answer.Answer, a.Answer, T)
                /\ TtlsAre(s.answer.Ns, a.Ns, T)
                /\ TtlsAre(s.answer.Extra, a.Extra, T)
                /\ s.pc = "done" => s.resp = s.answer

C16_Witness ==
    \E r \in Slots :
        /\ h[r].pc = "done"
        /\ h[r].from = Origin("upstream", 2)
        /\ cfg.cacheOn /\ cfg.CacheTTLOverride = 0
        /\ h[r].tnow > 0
        /\ h[r].resp.Answer # <<>> /\ h[r].resp.Answer[1].Ttl = 2 /\ h[r].resp.Ns[1].Ttl = 2
        /\ h[r].resp.Extra[2].Ttl = 7
        /\ EntryOf(h[r], 2).Expire = h[r].tnow + 2 * TicksPerSec


\* The address is a UDP or TCP address in a block of the configured network
\* the network rule names.
InNetworkOf(rule, addr) ==
    /\ addr.net \in {"udp", "tcp"}
    /\ \E nw \in DOMAIN cfg.Network :
          /\ rule.source = Id("network.", nw)
          /\ \E b \in 1..Len(cfg.Network[nw].IPNets) : addr.ip \in cfg.Network[nw].IPNets[b]

\* The network rules of the policy that hold the source address of run s.
NetworkHits(s) ==
    {k \in 1..Len(cfg.Listener.Policy.Networks) :
        InNetworkOf(cfg.Listener.Policy.Networks[k], s.addr)}

NoDomainRuleFor(s) ==
    \A k \in 1..Len(cfg.Listener.Policy.Rules) :
        /\ cfg.Listener.Policy.Rules[k].source # s.domain
        /\ ~wildcardMatches(cfg.Listener.Policy.Rules[k].source, s.domain)

\* C17: without a policy upstreamFor returns the listener's default upstream
\* alone, unmatched.  With one, when no domain rule matches, it returns
\* matched with the targets of the first network rule in configured order
\* whose network has a block with the source IP in it, and the default
\* upstream alone, unmatched, when there is no such rule or the source
\* address is neither UDP nor TCP.
C17_NetworkRule ==
    \A r \in Slots :
        LET s == h[r]
            default == << Id("upstream.", cfg.listenerNum) >>
        IN  s.pc # "idle" =>
                IF cfg.Listener.Policy = Nil
                THEN ~s.matched /\ s.arg = default
                ELSE NoDomainRuleFor(s) =>
                        IF NetworkHits(s) = {}
                        THEN ~s.matched /\ s.arg = default
                        ELSE LET first == CHOOSE k \in NetworkHits(s) :
                                             \A j \in NetworkHits(s) : k <= j
                             IN  /\ s.matched
                                 /\ s.arg = cfg.Listener.Policy.Networks[first].targets

C17_Witness ==
    \E r \in Slots :
        /\ h[r].pc # "idle"
        /\ cfg.Listener.Policy # Nil
        /\ NoDomainRuleFor(h[r])
        /\ NetworkHits(h[r]) = {2, 3}
        /\ h[r].matched
        /\ h[r].arg = cfg.Listener.Policy.Networks[2].targets
        /\ h[r].arg # cfg.Listener.Policy.Networks[3].targets
        /\ h[r].addr.net = "tcp"

\* A domain rule without a star whose pattern is the domain, letter case ignored.
LiteralRuleFor(rule, domain) == Stars(rule.source) = {} /\ ToLower(rule.source) = domain

\* C18, as the claim states it: a query whose canonical name is the pattern
\* of a literal domain rule, letter case ignored, matches the policy, with the
\* targets of the first domain rule that applies to it.
C18_LiteralRuleIgnoresCase ==
    \A r \in Slots :
        LET s == h[r] IN
        (s.pc # "idle" /\ cfg.Listener.Policy # Nil) =>
            \A k \in 1..Len(cfg.Listener.Policy.Rules) :
                LET rules == cfg.Listener.Policy.Rules IN
                ( /\ LiteralRuleFor(rules[k], s.domain)
                  /\ \A j \in 1..(k - 1) :
                        /\ ~LiteralRuleFor(rules[j], s.domain)
                        /\ ~wildcardMatches(rules[j].source, s.domain) )
                => s.matched /\ s.arg = rules[k].targets


\* C19, as the claim states it: a network rule that names a network nobody
\* configured is passed over and the rules after it still apply; a candidate
\* that names an upstream nobody configured is passed over, the handler does
\* not abort, and SERVFAIL is answered only after every configured candidate
\* was tried.
C19_UnknownIdsAreSkipped ==
    \A r \in Slots :
        LET s == h[r] IN
        /\ ( /\ s.pc # "idle"
             /\ cfg.Listener.Policy # Nil
             /\ NoDomainRuleFor(s)
             /\ NetworkHits(s) # {} ) => s.matched
        /\ s.pc # "panic"
        /\ \A j \in Contacts(s) : s.upstreamConfigs[s.log[j].k] # Nil
        /\ s.from.kind = "servfail" =>
              \A k \in 1..Len(s.upstreamConfigs) :
                  s.upstreamConfigs[k] # Nil => LastAttemptOn(s, k) # 0

\* C20, as the claim states it: the context of an attempt on an upstream
\* that is not configured to send client info carries no client info.
C20_NoClientInfoCarriedOver ==
    \A r \in Slots : \A j \in 1..Len(h[r].log) :
        LET s == h[r]
            e == s.log[j]
        IN  (e.ev = "attempt" /\ ~UpstreamSendClientInfo(s.upstreamConfigs[e.k])) =>
                e.ci = Nil


Adds(s) == SelectSeq(s.log, LAMBDA e : e.ev = "add")

\* The step inserts into the cache the answer run r has just received from
\* candidate n and accepts as final, under the key of that candidate, and it
\* is the run's only insert.
InsertsFinalAnswer(r) ==
    LET s == h[r]
        t == h'[r]
        key == [Name |-> s.m.Question[1].Name, Qtype |-> s.m.Question[1].Qtype,
                Upstream |-> s.upstreams[s.n]]
    IN  /\ s.pc = "answered" /\ s.answer # Nil
        /\ s.log[Len(s.log)] = Event("attempt", s.n, TRUE, s.answer, s.log[Len(s.log)].ci)
        /\ ~(IsFailoverRcode(s.answer) /\ Len(s.upstreamConfigs) > 1)
        /\ Adds(s) = <<>> /\ Len(Adds(t)) = 1
        /\ t.pc = "write" /\ t.from = Origin("upstream", s.n)
        /\ t.answer.Id = s.answer.Id /\ t.answer.Rcode = s.answer.Rcode
        /\ \A o \in Slots \ {r} : h'[o] = h[o]
        /\ \E e \in cache' :
              /\ e.key = key /\ e.value.Msg = t.answer
              /\ cache' = {c \in cache : c.key # key} \cup {e}

\* C21: the cache changes only when a run inserts the answer it received from
\* an upstream and accepted as final, under that upstream's key; a run
\* inserts at most once, and a run that answers from a fresh or a stale
\* entry, with SERVFAIL or with REFUSED, or that discards an answer by the
\* failover rule, leaves the cache as it is, whatever the other runs do.
C21_CacheWrites ==
    [][ /\ cache' # cache => \E r \in Slots : InsertsFinalAnswer(r)
        /\ \A r \in Slots :
              /\ Len(Adds(h'[r])) <= 1
              /\ h'[r].from.kind \in {"hit", "stale", "servfail", "refused"} =>
                    Adds(h'[r]) = <<>>
              /\ (h[r].pc = "answered" /\ h'[r].pc = "resolve") =>
                    cache' = cache /\ Adds(h'[r]) = <<>> ]_vars

\* Two runs at the same time: both looked the cache up while it was empty,
\* one answers from the second candidate's answer and inserts it, the other
\* has failed over and is still resolving.
C21_Witness ==
    /\ h["r1"].pc = "done" /\ h["r1"].from = Origin("upstream", 2)
    /\ Len(Adds(h["r1"])) = 1
    /\ h["r2"].pc = "answered" /\ h["r2"].n = 2 /\ h["r2"].answer # Nil
    /\ \A r \in Slots : h[r].log[1] = Event("get", 1, FALSE, Nil, Nil)
    /\ \A r \in Slots : h[r].log[2] = Event("get", 2, FALSE, Nil, Nil)
    /\ Cardinality(cache) = 1

====
